---- MODULE Spec2Model ----
(***************************************************************************)
(* PatchTrainer.train of train_patch.py as a state machine.                *)
(*                                                                         *)
(* Numbers are fixed point.  A patch value v stands for v / Q, so the      *)
(* image range [0,1] is 0..Q.  Losses and weights are integers in one      *)
(* loss unit.  The learning rate is counted in units of 1e-10.  The epoch  *)
(* mean fed to the scheduler is the pair (sum, number of batches); the     *)
(* number of batches is the same in every epoch of a run, so two means     *)
(* compare as their sums do.                                               *)
(*                                                                         *)
(* The detector, the loss modules, the data loader and the Adam update are *)
(* collaborators: what they return is drawn from the sets of env.          *)
(***************************************************************************)
EXTENDS Integers, Sequences, FiniteSets, TLC

\* ------------------------------------------------------------- bounds
Q == 2              \* patch resolution: value v is v / Q
NPix == 1           \* number of patch values modelled
MaxEpochs == 2      \* largest n_epochs of the general runs
MaxImages == 3      \* largest dataset of the general runs
MaxBatch == 2       \* largest batch_size of the general runs
MaxDelta == 1       \* largest optimizer step, in patch levels
SchedEpochs == 409  \* n_epochs of the long scheduler run
VarEpochs == 54     \* n_epochs of the scheduler run with varying losses
MetricsImages == 31 \* dataset of the metrics runs

\* ------------------------------------------------- program constants
LogEvery == 15          \* i_batch % 15 == 0
Patience == 50          \* ReduceLROnPlateau(..., patience=50)
FactorDen == 10         \* ReduceLROnPlateau default factor = 0.1
ThresholdDen == 10000   \* default threshold = 1e-4, threshold_mode = 'rel'
Eps == 100              \* default eps = 1e-8, in lr units of 1e-10
MinLr == 0              \* default min_lr = 0

Max(a, b) == IF a >= b THEN a ELSE b
Min(a, b) == IF a <= b THEN a ELSE b

Recognized == {"obj", "cls", "obj * cls"}
LossTargets == Recognized \cup {"obj + cls"}
PatchSrcs == {"gray", "random", "patch.png"}
StartLrs == {3 * 100000000, 3 * 100}      \* 0.03 and 3e-8

VARIABLES
    cfg,                 \* self.cfg (train() rewrites cfg.loss_target)
    env,                 \* what the collaborators can return in this run
    pc,                  \* position in train()
    error,               \* "none", or the exception / interruption that ended the run
    made,                \* directories and files of log_dir other than images
    model_params,        \* the detector's parameters
    requires_grad,       \* requires_grad of the detector's parameters and of the Patch
    grad,                \* whether the detector's parameters, the Patch hold a .grad
    adv_patch_cpu,       \* the Patch; << >> before it is constructed
    optimizer,           \* [params, lr, steps]
    scheduler,           \* [best, num_bad_epochs]; best = << >> is +inf
    epoch, i_batch, ep_loss,
    loc,                 \* the loop's locals (nps, tv, max_prob, ..., loss)
    writer,              \* the tensorboard writer: the emissions, in order
    files,               \* patches/: path -> image; << >> is a file being written
    dumps,               \* patch_applied_imgs/: batch index -> the step that wrote it
    \* history variables
    stages,              \* the stages of the current BatchStep, in order
    unclamped,           \* the Patch as optimizer.step left it in this BatchStep
    raw,                 \* what the nps and tv modules give for this batch's patch
    steps_done,          \* batch index -> BatchSteps completed in this epoch
    ends,                \* epoch index -> times its EpochEnd ran
    saves,               \* epoch index -> checkpoint writes completed
    fed,                 \* the value last handed to scheduler.step
    sum_totals, n_totals,\* sum and number of this epoch's batch totals
    fed_min, window, breaches, lr_changes

vars == <<cfg, env, pc, error, made, model_params, requires_grad, grad,
          adv_patch_cpu, optimizer, scheduler, epoch, i_batch, ep_loss,
          loc, writer, files, dumps, stages, unclamped, raw, steps_done, ends,
          saves, fed, sum_totals, n_totals, fed_min, window, breaches, lr_changes>>

\* ------------------------------------------------------ configuration
MkCfg(lt, src, dbg, ne, bs, ni, nm, tm, mtv, lr) ==
    [loss_target |-> lt, patch_src |-> src, debug_mode |-> dbg, n_epochs |-> ne,
     batch_size |-> bs, n_images |-> ni, nps_mult |-> nm, tv_mult |-> tm,
     min_tv_loss |-> mtv, start_lr |-> lr, patch_name |-> "patch"]

MkEnv(deltas, dets, npss, tvs) ==
    [deltas |-> deltas, dets |-> dets, npss |-> npss, tvs |-> tvs]

\* len(self.train_loader): DataLoader keeps the short last batch
EpochLength(c) == (c.n_images + c.batch_size - 1) \div c.batch_size

\* number of images of batch i
BatchSize(c, i) ==
    IF i + 1 < EpochLength(c) THEN c.batch_size
    ELSE c.n_images - (EpochLength(c) - 1) * c.batch_size

\* ------------------------------------------------- pure parts of train()

\* lines 125-134: the string switch; "raise" is the NotImplementedError
LossTargetFnNoRaise(lt) ==
    CASE lt = "obj" -> "lambda obj, cls: obj"
      [] lt = "cls" -> "lambda obj, cls: cls"
      [] lt = "obj * cls" -> "lambda obj, cls: obj * cls"
      [] OTHER -> lt
LossTargetFn(lt) ==
    CASE lt = "obj" -> "lambda obj, cls: obj"
      [] lt = "cls" -> "lambda obj, cls: cls"
      [] lt = "obj * cls" -> "lambda obj, cls: obj * cls"
      [] OTHER -> "raise"

Lambdas == {LossTargetFn(lt) : lt \in Recognized}

\* the selected lambda applied to one detection's scores (0 or 1 here)
LossTargetApply(fn, obj, cls) ==
    CASE fn = "lambda obj, cls: obj" -> obj
      [] fn = "lambda obj, cls: cls" -> cls
      [] OTHER -> obj * cls

\* generate_patch / read_image: the patches train() can start from
InitPatches(src) ==
    CASE src = "gray" -> {[p \in 1..NPix |-> Q \div 2]}      \* torch.full(.., 0.5)
      [] src = "random" -> [1..NPix -> 0..(Q - 1)]           \* torch.rand: [0, 1)
      [] OTHER -> [1..NPix -> 0..Q]                          \* ToTensor: byte / 255

\* line 150: for epoch in range(n_epochs)
EpochsLeftOneMore(e, n) == e <= n
EpochsLeft(e, n) == e < n

\* line 152-153: the checkpoint's path inside patch_dir
OutPatchPathNoEpoch(name, e) == <<name, "epoch", 0>>
OutPatchPath(name, e) == <<name, "epoch", e>>

\* lines 181-182: a loss module is evaluated only under a nonzero weight
ModuleOrZero(mult, value) == IF mult # 0 THEN value ELSE 0

\* line 185: torch.max(tv * tv_mult, min_tv_loss)
TvLossMin(weighted, floor) == Min(weighted, floor)
TvLoss(weighted, floor) == Max(weighted, floor)

\* line 195: adv_patch_cpu.data.clamp_(0, 1)
ClampUpperOnly(v) == Min(v, Q)
Clamp(v) == Min(Max(v, 0), Q)

\* line 197: i_batch % 15 == 0
LogNow(i) == i % LogEvery = 0

\* line 198: the key of an emission
IterationNoEpoch(len, e, i) == i
Iteration(len, e, i) == len * e + i

\* line 213: i_batch + 1 >= len(self.train_loader)
LastBatch(c, i) == i + 1 >= EpochLength(c)

\* line 222: if epoch % 1 == 0
SaveNowEven(e) == e % 2 = 0
SaveNow(e) == e % 1 = 0

\* line 223: ToPILImage: pic.mul(255).byte(), one byte per value
ToPILImage(patch) == [p \in DOMAIN patch |-> ((255 * patch[p]) \div Q) % 256]

\* lines 66-68: requires_grad of the detector's parameters after the freeze
FreezeSkipped(r) == r
Freeze(r) == FALSE

\* line 145-146: the tensors handed to Adam
OptimizerParams == {"adv_patch_cpu"}

\* ------------------------------ ReduceLROnPlateau(optimizer, 'min', patience=50)
\* is_better, mode 'min', threshold_mode 'rel': a < best * (1 - threshold)
IsBetter(a, best) ==
    best = << >> \/ a * ThresholdDen < best[1] * (ThresholdDen - 1)

\* num_bad_epochs > patience
PatienceBreachedEarly(n) == n >= Patience
PatienceBreached(n) == n > Patience

\* _reduce_lr: new_lr = max(old_lr * factor, min_lr), taken if old - new > eps
ReduceLr(lr) ==
    LET new == Max(lr \div FactorDen, MinLr)
    IN  IF lr - new > Eps THEN new ELSE lr

\* scheduler.step(m): the new scheduler state and learning rate
SchedulerStep(s, lr, m) ==
    LET better == IsBetter(m, s.best)
        best == IF better THEN <<m>> ELSE s.best
        bad == IF better THEN 0 ELSE s.num_bad_epochs + 1
        hit == PatienceBreached(bad)
    IN  [scheduler |-> [best |-> best, num_bad_epochs |-> IF hit THEN 0 ELSE bad],
         lr |-> IF hit THEN ReduceLr(lr) ELSE lr]

NoLoc == [nps |-> 0, tv |-> 0, max_prob |-> 0, nps_loss |-> 0, tv_loss |-> 0,
          det_loss |-> 0, loss |-> 0]
NoRaw == [nps |-> 0, tv |-> 0]

\* ------------------------------------------------------------ the runs
Shapes == {<<ni, bs>> \in (1..MaxImages) \X (1..MaxBatch) : TRUE}

\* the general runs: every rule, every patch source and the debug flag, each
\* with every epoch count and loader shape
Variants ==
    {<<lt, "gray", dbg>> : lt \in LossTargets, dbg \in BOOLEAN}
    \cup {<<"obj * cls", src, FALSE>> : src \in PatchSrcs}
Cfgs ==
    {MkCfg(v[1], v[2], v[3], ne, sh[2], sh[1], 1, 1, 1, 3 * 100000000) :
        v \in Variants, ne \in 0..MaxEpochs, sh \in Shapes}

\* the optimizer moves a value by any step up to MaxDelta in runs of at most
\* one epoch, and by 0 or MaxDelta in the longer ones
EnvFull == MkEnv((0 - MaxDelta)..MaxDelta, {<<1, 1>>}, {1}, {0})
EnvUp == MkEnv({0, MaxDelta}, {<<1, 1>>}, {1}, {0})

\* state after PatchTrainer.__init__, for a configuration c and collaborators e
InitRun(c, e) ==
    /\ cfg = c
    /\ env = e
    /\ pc = "Train"
    /\ error = "none"
    /\ made = {}
    /\ model_params = 0
    /\ requires_grad = [model |-> Freeze(TRUE), adv_patch_cpu |-> FALSE]
    /\ grad = [model |-> FALSE, adv_patch_cpu |-> FALSE]
    /\ adv_patch_cpu = << >>
    /\ optimizer = [params |-> {}, lr |-> 0, steps |-> 0]
    /\ scheduler = [best |-> << >>, num_bad_epochs |-> 0]
    /\ epoch = 0
    /\ i_batch = 0
    /\ ep_loss = 0
    /\ loc = NoLoc
    /\ writer = << >>
    /\ files = << >>
    /\ dumps = << >>
    /\ stages = << >>
    /\ unclamped = << >>
    /\ raw = NoRaw
    /\ steps_done = [i \in 0..(EpochLength(c) - 1) |-> 0]
    /\ ends = [e2 \in 0..(c.n_epochs - 1) |-> 0]
    /\ saves = [e2 \in 0..(c.n_epochs - 1) |-> 0]
    /\ fed = [num |-> 0, den |-> 0]
    /\ sum_totals = 0
    /\ n_totals = 0
    /\ fed_min = << >>
    /\ window = 0
    /\ breaches = 0
    /\ lr_changes = 0

Runs == {<<c, IF c.n_epochs <= 1 THEN EnvFull ELSE EnvUp>> : c \in Cfgs}

\* runs that reach the error paths, kept beside the special runs below
ErrorRuns ==
    {r \in Runs : /\ r[1].n_epochs = 1 /\ r[1].n_images = 2
                  /\ r[1].patch_src = "gray"
                  /\ r[1].loss_target \in {"obj", "obj + cls"}}

\* the loss runs: every weight and floor, every module value
LossRuns ==
    {<<MkCfg(lt, "gray", FALSE, 1, 1, 2, nm, tm, mtv, 3 * 100000000),
       MkEnv({0}, {<<1, 1>>, <<1, 0>>, <<0, 1>>}, {0, 3}, {0, 1, 2})>> :
        lt \in Recognized, nm \in 0..2, tm \in 0..2, mtv \in {0, 1, 3}}
    \cup ErrorRuns

\* the scheduler runs: a constant loss from lr 0.03 for SchedEpochs epochs and
\* from lr 3e-8 for two patience windows, and a varying loss for VarEpochs
SchedRuns ==
    {<<MkCfg("obj * cls", "gray", FALSE, SchedEpochs, 1, 1, 1, 1, 1, 3 * 100000000),
       MkEnv({0}, {<<1, 1>>}, {1}, {0})>>,
     <<MkCfg("obj * cls", "gray", FALSE, 2 * (Patience + 1) + 1, 1, 1, 1, 1, 1, 3 * 100),
       MkEnv({0}, {<<1, 1>>}, {1}, {0})>>}
    \cup {<<MkCfg("obj * cls", "gray", FALSE, VarEpochs, 1, 1, 1, 1, 1, lr),
             MkEnv({0}, {<<1, 1>>}, {1, 2}, {0})>> : lr \in StartLrs}
    \cup ErrorRuns

\* the metrics runs: epochs of more than LogEvery batches
MetricsRuns ==
    {<<MkCfg("obj", "gray", FALSE, 2, bs, MetricsImages, 1, 1, 1, 3 * 100000000),
       MkEnv((0 - MaxDelta)..MaxDelta, {<<1, 1>>}, {1}, {0})>> : bs \in 1..2}
    \cup ErrorRuns

Init == \E r \in Runs : InitRun(r[1], r[2])
InitLoss == \E r \in LossRuns : InitRun(r[1], r[2])
InitSched == \E r \in SchedRuns : InitRun(r[1], r[2])
InitMetrics == \E r \in MetricsRuns : InitRun(r[1], r[2])

hist == <<stages, unclamped, raw, steps_done, ends, saves, fed, sum_totals,
          n_totals, fed_min, window, breaches, lr_changes>>
tensors == <<model_params, requires_grad, grad>>
loopvars == <<epoch, i_batch, ep_loss, loc>>
outputs == <<writer, files, dumps>>

Running == error = "none"

\* lines 114-134: output directories, cfg.json, the loss-target switch
FixLossTarget ==
    /\ Running /\ pc = "Train"
    /\ made' = made \cup {"patches", "cfg.json"}
                    \cup (IF cfg.debug_mode THEN {"patch_applied_imgs"} ELSE {})
    /\ LET fn == LossTargetFn(cfg.loss_target)
       IN  IF fn = "raise"
           THEN /\ error' = "NotImplementedError"
                /\ UNCHANGED <<cfg, pc>>
           ELSE /\ cfg' = [cfg EXCEPT !.loss_target = fn]
                /\ pc' = "GeneratePatch"
                /\ error' = error
    /\ UNCHANGED <<env, tensors, adv_patch_cpu, optimizer, scheduler,
                   loopvars, outputs, hist>>

\* lines 136-148: the initial patch, Adam over it, the plateau scheduler
GeneratePatch ==
    /\ Running /\ pc = "GeneratePatch"
    /\ adv_patch_cpu' \in InitPatches(cfg.patch_src)
    /\ optimizer' = [params |-> OptimizerParams, lr |-> cfg.start_lr, steps |-> 0]
    /\ scheduler' = [best |-> << >>, num_bad_epochs |-> 0]
    /\ pc' = "EpochStart"
    /\ requires_grad' = [requires_grad EXCEPT !.adv_patch_cpu = TRUE]
    /\ UNCHANGED <<cfg, env, error, made, model_params, grad, loopvars, outputs, hist>>

\* lines 150-157: the head of the epoch loop and of the batch loop
EpochStart ==
    /\ Running /\ pc = "EpochStart"
    /\ IF EpochsLeft(epoch, cfg.n_epochs)
       THEN /\ pc' = "Transform"
            /\ ep_loss' = 0
            /\ i_batch' = 0
            /\ steps_done' = [i \in DOMAIN steps_done |-> 0]
            /\ sum_totals' = 0
            /\ n_totals' = 0
            /\ stages' = << >>
       ELSE /\ pc' = "Done"
            /\ UNCHANGED <<ep_loss, i_batch, steps_done, sum_totals, n_totals, stages>>
    /\ UNCHANGED <<cfg, env, error, made, tensors, adv_patch_cpu, optimizer,
                   scheduler, epoch, loc, outputs, unclamped, raw, ends, saves, fed,
                   fed_min, window, breaches, lr_changes>>

\* lines 161-167: patch_transformer
Transform ==
    /\ Running /\ pc = "Transform"
    /\ pc' = "Composite"
    /\ stages' = Append(stages, "transform")
    /\ UNCHANGED <<cfg, env, error, made, tensors, adv_patch_cpu, optimizer,
                   scheduler, loopvars, outputs, unclamped, raw, steps_done, ends, saves,
                   fed, sum_totals, n_totals, fed_min, window, breaches, lr_changes>>

\* lines 168-171: patch_applier, interpolate
Composite ==
    /\ Running /\ pc = "Composite"
    /\ pc' = IF cfg.debug_mode THEN "DebugDump" ELSE "Score"
    /\ stages' = Append(stages, "composite")
    /\ UNCHANGED <<cfg, env, error, made, tensors, adv_patch_cpu, optimizer,
                   scheduler, loopvars, outputs, unclamped, raw, steps_done, ends, saves,
                   fed, sum_totals, n_totals, fed_min, window, breaches, lr_changes>>

\* lines 173-176: p_img_batch[1] saved as b_{i_batch}.jpg; index 1 needs two images
DebugDump ==
    /\ Running /\ pc = "DebugDump"
    /\ IF BatchSize(cfg, i_batch) < 2
       THEN /\ error' = "IndexError"
            /\ UNCHANGED <<pc, dumps>>
       ELSE /\ dumps' = (i_batch :> <<epoch, i_batch>>) @@ dumps
            /\ pc' = "Score"
            /\ error' = error
    /\ UNCHANGED <<cfg, env, made, tensors, adv_patch_cpu, optimizer,
                   scheduler, loopvars, writer, files, hist>>

\* lines 178-182: the detector, the extractor, the nps and tv modules
Score ==
    /\ Running /\ pc = "Score"
    /\ \E d \in env.dets, n \in env.npss, t \in env.tvs :
         /\ loc' = [loc EXCEPT
                      !.max_prob = LossTargetApply(cfg.loss_target, d[1], d[2]),
                      !.nps = ModuleOrZero(cfg.nps_mult, n),
                      !.tv = ModuleOrZero(cfg.tv_mult, t)]
         /\ raw' = [nps |-> n, tv |-> t]
    /\ pc' = "Loss"
    /\ stages' = Append(stages, "score")
    /\ UNCHANGED <<cfg, env, error, made, tensors, adv_patch_cpu, optimizer,
                   scheduler, epoch, i_batch, ep_loss, outputs, unclamped, steps_done,
                   ends, saves, fed, sum_totals, n_totals, fed_min, window, breaches,
                   lr_changes>>

\* lines 184-189: the three terms, their sum, the epoch's running sum
Loss ==
    /\ Running /\ pc = "Loss"
    /\ LET nps_loss == loc.nps * cfg.nps_mult
           tv_loss == TvLoss(loc.tv * cfg.tv_mult, cfg.min_tv_loss)
           det_loss == loc.max_prob
           loss == det_loss + nps_loss + tv_loss
       IN  /\ loc' = [loc EXCEPT !.nps_loss = nps_loss, !.tv_loss = tv_loss,
                                 !.det_loss = det_loss, !.loss = loss]
           /\ ep_loss' = ep_loss + loss
           /\ sum_totals' = sum_totals + loss
           /\ n_totals' = n_totals + 1
    /\ pc' = "Backward"
    /\ stages' = Append(stages, "loss")
    /\ UNCHANGED <<cfg, env, error, made, tensors, adv_patch_cpu, optimizer,
                   scheduler, epoch, i_batch, outputs, unclamped, raw, steps_done, ends,
                   saves, fed, fed_min, window, breaches, lr_changes>>

\* line 191: loss.backward() fills .grad of every tensor that requires grad
Backward ==
    /\ Running /\ pc = "Backward"
    /\ grad' = [t \in DOMAIN grad |-> grad[t] \/ requires_grad[t]]
    /\ pc' = "Update"
    /\ stages' = Append(stages, "backward")
    /\ UNCHANGED <<cfg, env, error, made, model_params, requires_grad,
                   adv_patch_cpu, optimizer, scheduler, loopvars, outputs, unclamped,
                   raw, steps_done, ends, saves, fed, sum_totals, n_totals, fed_min,
                   window, breaches, lr_changes>>

\* lines 192-193: optimizer.step() moves the optimizer's tensors that hold a grad;
\* zero_grad(set_to_none=True) drops their grads
Update ==
    /\ Running /\ pc = "Update"
    /\ \E d \in [1..NPix -> env.deltas] :
         adv_patch_cpu' =
            IF "adv_patch_cpu" \in optimizer.params /\ grad.adv_patch_cpu
            THEN [p \in 1..NPix |-> adv_patch_cpu[p] + d[p]]
            ELSE adv_patch_cpu
    /\ model_params' = IF "model" \in optimizer.params /\ grad.model
                       THEN model_params + 1 ELSE model_params
    /\ optimizer' = [optimizer EXCEPT !.steps = @ + 1]
    /\ grad' = [t \in DOMAIN grad |-> grad[t] /\ t \notin optimizer.params]
    /\ unclamped' = adv_patch_cpu'
    /\ pc' = "Clamp"
    /\ stages' = Append(stages, "update")
    /\ UNCHANGED <<cfg, env, error, made, requires_grad, scheduler, loopvars,
                   outputs, raw, steps_done, ends, saves, fed, sum_totals, n_totals,
                   fed_min, window, breaches, lr_changes>>

\* line 195: keep patch in image range
ClampPatch ==
    /\ Running /\ pc = "Clamp"
    /\ adv_patch_cpu' = [p \in 1..NPix |-> Clamp(adv_patch_cpu[p])]
    /\ pc' = "Emit"
    /\ stages' = Append(stages, "clamp")
    /\ UNCHANGED <<cfg, env, error, made, tensors, optimizer, scheduler,
                   loopvars, outputs, unclamped, raw, steps_done, ends, saves, fed,
                   sum_totals, n_totals, fed_min, window, breaches, lr_changes>>

\* lines 197-216: the metrics of every 15th batch, then the next batch or the
\* end of the epoch
Emit ==
    /\ Running /\ pc = "Emit"
    /\ writer' = IF LogNow(i_batch)
                 THEN Append(writer,
                        [iteration |-> Iteration(EpochLength(cfg), epoch, i_batch),
                         epoch |-> epoch, i_batch |-> i_batch])
                 ELSE writer
    /\ steps_done' = [steps_done EXCEPT ![i_batch] = @ + 1]
    /\ IF LastBatch(cfg, i_batch)
       THEN /\ pc' = "EpochEnd"
            /\ UNCHANGED <<i_batch, loc, raw, stages, unclamped>>
       ELSE /\ pc' = "Transform"
            /\ i_batch' = i_batch + 1
            /\ loc' = NoLoc
            /\ raw' = NoRaw
            /\ stages' = << >>
            /\ unclamped' = << >>
    /\ UNCHANGED <<cfg, env, error, made, tensors, adv_patch_cpu, optimizer,
                   scheduler, epoch, ep_loss, files, dumps, ends, saves, fed, sum_totals,
                   n_totals, fed_min, window, breaches, lr_changes>>

\* lines 218-219: the epoch mean ep_loss / len(train_loader), handed to
\* scheduler.step; the scheduler compares means of one denominator, so it is
\* given the numerator
EpochEnd ==
    /\ Running /\ pc = "EpochEnd"
    /\ LET len == EpochLength(cfg)
           r == SchedulerStep(scheduler, optimizer.lr, ep_loss)
           worse == fed_min # << >> /\ ep_loss >= fed_min[1]
           breach == worse /\ window + 1 > Patience
       IN  /\ fed' = [num |-> ep_loss, den |-> len]
           /\ scheduler' = r.scheduler
           /\ optimizer' = [optimizer EXCEPT !.lr = r.lr]
           /\ fed_min' = IF worse THEN fed_min ELSE <<ep_loss>>
           /\ window' = IF ~worse \/ breach THEN 0 ELSE window + 1
           /\ breaches' = IF breach THEN breaches + 1 ELSE breaches
           /\ lr_changes' = IF r.lr # optimizer.lr THEN lr_changes + 1 ELSE lr_changes
    /\ ends' = [ends EXCEPT ![epoch] = @ + 1]
    /\ pc' = "Save"
    /\ UNCHANGED <<cfg, env, error, made, tensors, adv_patch_cpu, loopvars,
                   outputs, stages, unclamped, raw, steps_done, saves, sum_totals,
                   n_totals>>

\* lines 221-224: under epoch % 1 == 0 the checkpoint file is opened under
\* out_patch_path; otherwise the next epoch begins
Save ==
    /\ Running /\ pc = "Save"
    /\ IF SaveNow(epoch)
       THEN /\ files' = (OutPatchPath(cfg.patch_name, epoch) :> << >>) @@ files
            /\ pc' = "SaveWrite"
            /\ UNCHANGED epoch
       ELSE /\ epoch' = epoch + 1
            /\ pc' = "EpochStart"
            /\ UNCHANGED files
    /\ UNCHANGED <<cfg, env, error, made, tensors, adv_patch_cpu, optimizer,
                   scheduler, i_batch, ep_loss, loc, writer, dumps, hist>>

\* lines 223-225: the image is written, the locals dropped, the next epoch begins
SaveWrite ==
    /\ Running /\ pc = "SaveWrite"
    /\ files' = (OutPatchPath(cfg.patch_name, epoch) :> ToPILImage(adv_patch_cpu)) @@ files
    /\ saves' = [saves EXCEPT ![epoch] = @ + 1]
    /\ loc' = NoLoc
    /\ raw' = NoRaw
    /\ stages' = << >>
    /\ unclamped' = << >>
    /\ epoch' = epoch + 1
    /\ pc' = "EpochStart"
    /\ UNCHANGED <<cfg, env, error, made, tensors, adv_patch_cpu, optimizer,
                   scheduler, i_batch, ep_loss, writer, dumps, steps_done, ends, fed,
                   sum_totals, n_totals, fed_min, window, breaches, lr_changes>>

\* the process is interrupted: nothing further runs
Interrupt ==
    /\ Running /\ pc # "Done"
    /\ error' = "KeyboardInterrupt"
    /\ UNCHANGED <<cfg, env, pc, made, tensors, adv_patch_cpu, optimizer,
                   scheduler, loopvars, outputs, hist>>

Next ==
    \/ FixLossTarget
    \/ GeneratePatch
    \/ EpochStart
    \/ Transform
    \/ Composite
    \/ DebugDump
    \/ Score
    \/ Loss
    \/ Backward
    \/ Update
    \/ ClampPatch
    \/ Emit
    \/ EpochEnd
    \/ Save
    \/ SaveWrite
    \/ Interrupt

Spec == Init /\ [][Next]_vars
SpecLoss == InitLoss /\ [][Next]_vars
SpecSched == InitSched /\ [][Next]_vars
SpecMetrics == InitMetrics /\ [][Next]_vars

\* ------------------------------------------------------------ the claims
InBatchStep == pc \in {"Transform", "Composite", "DebugDump", "Score", "Loss",
                       "Backward", "Update", "Clamp", "Emit"}
Constructed == DOMAIN adv_patch_cpu # {}
InRange(patch) == \A p \in DOMAIN patch : patch[p] \in 0..Q
PathOf(e) == OutPatchPath(cfg.patch_name, e)
Complete(f, p) == p \in DOMAIN f /\ f[p] # << >>

\* C1: at every position of train() other than the one between optimizer.step
\* and the clamp, every value of the Patch lies in [0,1]: the metrics emission,
\* the scheduler step and the checkpoint save see a clamped Patch.
C1_PatchInRange == (Constructed /\ pc # "Clamp") => InRange(adv_patch_cpu)

C1_Witness ==
    /\ pc = "Emit"
    /\ \E p \in DOMAIN unclamped : unclamped[p] > Q /\ adv_patch_cpu[p] = Q
    /\ \E e \in DOMAIN saves : saves[e] = 1

\* C2: under an unrecognized loss-target rule train() stops with
\* NotImplementedError in the switch: no Patch, no BatchStep, no optimizer or
\* scheduler step, no checkpoint.  Under a recognized rule cfg.loss_target is
\* rewritten once, in the switch before the first epoch, to the rule's function.
C2_UnrecognizedRuleIsFatal ==
    /\ [](cfg.loss_target \notin (Recognized \cup Lambdas) =>
            /\ pc = "Train"
            /\ made # {} => error = "NotImplementedError"
            /\ ~Constructed
            /\ optimizer = [params |-> {}, lr |-> 0, steps |-> 0]
            /\ fed.den = 0
            /\ stages = << >> /\ writer = << >>
            /\ DOMAIN files = {} /\ DOMAIN dumps = {})
    /\ [](pc # "Train" => cfg.loss_target \in Lambdas)
    /\ [][cfg' # cfg =>
            /\ pc = "Train" /\ epoch = 0 /\ ~Constructed
            /\ cfg.loss_target \in Recognized
            /\ cfg' = [cfg EXCEPT !.loss_target = LossTargetFn(cfg.loss_target)]
            /\ cfg'.loss_target \in Lambdas]_vars

C2_Witness ==
    /\ cfg.loss_target = "obj + cls"
    /\ error = "NotImplementedError"
    /\ "cfg.json" \in made

\* C3: once a batch's loss is computed, the total that is backpropagated is
\* detection + nps_mult * printability + max(tv_mult * smoothness, min_tv_loss),
\* also under a zero weight, where the module is not evaluated; the smoothness
\* term is never below the floor and equals it when tv_mult * smoothness <= floor.
C3_TotalLoss ==
    pc \in {"Backward", "Update", "Clamp", "Emit"} =>
        /\ loc.loss = loc.det_loss + cfg.nps_mult * raw.nps
                        + Max(cfg.tv_mult * raw.tv, cfg.min_tv_loss)
        /\ loc.loss = loc.det_loss + loc.nps_loss + loc.tv_loss
        /\ loc.tv_loss >= cfg.min_tv_loss
        /\ cfg.tv_mult * raw.tv <= cfg.min_tv_loss => loc.tv_loss = cfg.min_tv_loss

C3_Witness ==
    /\ pc = "Backward"
    /\ cfg.tv_mult = 0 /\ cfg.nps_mult = 0
    /\ raw.tv > 0 /\ raw.nps > 0
    /\ cfg.min_tv_loss > 0
    /\ loc.tv_loss = cfg.min_tv_loss

\* C4: a BatchStep runs transform, composite, score, loss, backward, update,
\* clamp in that order; within an epoch the batches are stepped once each, in
\* order, all of them before the epoch's EpochEnd; EpochEnd runs once per epoch;
\* no BatchStep belongs to an epoch index >= n_epochs, the run is Done after
\* exactly n_epochs epochs and stays Done.
C4_LoopOrder ==
    /\ [](/\ pc = "Emit" => stages = <<"transform", "composite", "score", "loss",
                                       "backward", "update", "clamp">>
          /\ (InBatchStep \/ pc \in {"EpochEnd", "Save", "SaveWrite"}) =>
                epoch < cfg.n_epochs
          /\ InBatchStep =>
                /\ i_batch < EpochLength(cfg)
                /\ \A i \in DOMAIN steps_done :
                      steps_done[i] = IF i < i_batch THEN 1 ELSE 0
                /\ \A e \in DOMAIN ends : ends[e] = IF e < epoch THEN 1 ELSE 0
          /\ pc = "EpochEnd" =>
                /\ \A i \in DOMAIN steps_done : steps_done[i] = 1
                /\ \A e \in DOMAIN ends : ends[e] = IF e < epoch THEN 1 ELSE 0
          /\ pc \in {"Save", "SaveWrite"} =>
                /\ \A i \in DOMAIN steps_done : steps_done[i] = 1
                /\ \A e \in DOMAIN ends : ends[e] = IF e <= epoch THEN 1 ELSE 0
          /\ pc = "Done" =>
                /\ epoch = cfg.n_epochs
                /\ \A e \in DOMAIN ends : ends[e] = 1)
    /\ [][pc = "Done" => pc' = "Done"]_vars

C4_Witness ==
    /\ pc = "Done"
    /\ cfg.n_epochs = MaxEpochs
    /\ EpochLength(cfg) = MaxImages
    /\ \A e \in DOMAIN ends : ends[e] = 1

\* C6: a checkpoint is written once per epoch, at the end of the epoch after
\* its last clamp, under a path of its own; it holds the image of the Patch as
\* it stands then; at Done there is one checkpoint for each epoch 0..n_epochs-1.
C6_OneCheckpointPerEpoch ==
    /\ \A e \in DOMAIN saves : saves[e] = IF e < epoch THEN 1 ELSE 0
    /\ \A e \in 0..(epoch - 1) : Complete(files, PathOf(e))
    /\ Cardinality(DOMAIN files) = epoch + (IF pc = "SaveWrite" THEN 1 ELSE 0)
    /\ pc \in {"Save", "SaveWrite"} =>
          /\ stages # << >> /\ stages[Len(stages)] = "clamp"
          /\ i_batch + 1 = EpochLength(cfg)
    /\ (pc = "EpochStart" /\ epoch > 0) =>
          files[PathOf(epoch - 1)] = ToPILImage(adv_patch_cpu)
    /\ pc = "Done" =>
          /\ DOMAIN files = {PathOf(e) : e \in 0..(cfg.n_epochs - 1)}
          /\ \A e \in 0..(cfg.n_epochs - 1) : Complete(files, PathOf(e))

C6_Witness ==
    /\ pc = "Done"
    /\ cfg.n_epochs = 2
    /\ Complete(files, PathOf(0)) /\ Complete(files, PathOf(1))
    /\ files[PathOf(0)] # files[PathOf(1)]

\* C7: in every state the detector's parameters are those of construction,
\* none of them requires or holds a gradient, and the optimizer holds the Patch
\* alone: an optimizer step moves nothing but the Patch.
C7_DetectorFrozen ==
    /\ model_params = 0
    /\ ~requires_grad.model
    /\ ~grad.model
    /\ Constructed => requires_grad.adv_patch_cpu
    /\ optimizer.params \subseteq {"adv_patch_cpu"}

C7_Witness ==
    /\ pc = "Clamp"
    /\ optimizer.steps >= 2
    /\ cfg.patch_src = "gray"
    /\ adv_patch_cpu[1] # Q \div 2
    /\ model_params = 0

\* C8: a checkpoint whose write completed is never rewritten or removed by a
\* later step, and an interruption, wherever it falls, leaves every file as it is.
C8_CheckpointsKept ==
    [][/\ \A p \in DOMAIN files :
             files[p] # << >> => (p \in DOMAIN files' /\ files'[p] = files[p])
       /\ error' = "KeyboardInterrupt" => files' = files]_vars

C8_Witness ==
    /\ error = "KeyboardInterrupt"
    /\ pc = "SaveWrite"
    /\ epoch = 1
    /\ Complete(files, PathOf(0))
    /\ PathOf(1) \in DOMAIN files /\ files[PathOf(1)] = << >>

\* C10: in debug mode every BatchStep writes the dump b_{i_batch} before the
\* detector is scored and goes on, whatever the size of the batch.
C10_DebugDumpEveryBatch ==
    cfg.debug_mode =>
        /\ error # "IndexError"
        /\ pc \in {"Score", "Loss", "Backward", "Update", "Clamp", "Emit"} =>
              (i_batch \in DOMAIN dumps /\ dumps[i_batch] = <<epoch, i_batch>>)

\* the scheduler's reduction of a learning rate whose decrease exceeds eps
Reducible(lr) == lr - lr \div FactorDen > Eps

Multiples(n) == (n + LogEvery - 1) \div LogEvery

\* batches of the current epoch whose BatchStep is complete
DoneInEpoch ==
    IF InBatchStep THEN i_batch
    ELSE IF pc \in {"EpochEnd", "Save", "SaveWrite"} THEN EpochLength(cfg) ELSE 0

\* C9: the writer holds one emission for every completed batch whose index is
\* divisible by 15 and no other, each made after that batch's clamp, and the
\* keys of successive emissions strictly increase, within and across epochs.
C9_MetricsKeys ==
    /\ [](/\ Len(writer) = epoch * Multiples(EpochLength(cfg)) + Multiples(DoneInEpoch)
          /\ \A k \in 1..Len(writer) : writer[k].i_batch % LogEvery = 0
          /\ \A j, k \in 1..Len(writer) :
                j < k => writer[j].iteration < writer[k].iteration)
    /\ [][writer' # writer =>
            /\ pc = "Emit" /\ stages[Len(stages)] = "clamp"
            /\ i_batch % LogEvery = 0
            /\ Len(writer') = Len(writer) + 1
            /\ writer'[Len(writer')].epoch = epoch
            /\ writer'[Len(writer')].i_batch = i_batch]_vars

C9_Witness ==
    /\ pc = "Done"
    /\ EpochLength(cfg) > 2 * LogEvery
    /\ Len(writer) = 6
    /\ writer[3].i_batch = 2 * LogEvery
    /\ writer[4].iteration = EpochLength(cfg)

====
